---- MODULE Spec2Model ----
(***************************************************************************)
(* Model of src/src/data_cleaning.py: the sales-data cleaning pipeline     *)
(* load_data -> clean_column_names -> clean_text_fields ->                 *)
(* convert_to_numeric -> handle_missing_values -> remove_invalid_rows ->   *)
(* to_csv, as run by the __main__ block.                                   *)
(*                                                                         *)
(* A text is a sequence of one-character strings, so that lowercasing,     *)
(* replacing, stripping, substring search and number parsing are computed  *)
(* and not assumed.  A cell value is Str(text), Num(integer) or NaN (the   *)
(* pandas missing marker).  A DataFrame is a record of its column labels,  *)
(* its column dtypes ("object" or "number") and its rows; each row carries *)
(* its index label, which pandas keeps through dropna and boolean          *)
(* indexing (here the 1-based position of the row in the source file).     *)
(*                                                                         *)
(* Scope: numbers are integers written as an optional "-" and digits;      *)
(* tables whose normalized column names collide are not drawn.             *)
(***************************************************************************)
EXTENDS Integers, Sequences, FiniteSets, TLC

VARIABLES pc, srcExists, raw, df, destDir, destFile, fs0, err, hist

vars == <<pc, srcExists, raw, df, destDir, destFile, fs0, err, hist>>

(***************************************************************************)
(* Bounds of the model.                                                    *)
(***************************************************************************)
MaxRows == 2
MaxNameLen == 3

(***************************************************************************)
(* Characters and texts.                                                   *)
(***************************************************************************)
Upper == <<"A","B","C","D","E","F","G","H","I","J","K","L","M",
           "N","O","P","Q","R","S","T","U","V","W","X","Y","Z">>
Lower == <<"a","b","c","d","e","f","g","h","i","j","k","l","m",
           "n","o","p","q","r","s","t","u","v","w","x","y","z">>
DigitChars == <<"0","1","2","3","4","5","6","7","8","9">>
Whitespace == {" ", "\t"}

\* The lowercase letter of each uppercase letter
LowerOf ==
    [c \in {Upper[i] : i \in DOMAIN Upper} |->
        Lower[CHOOSE i \in DOMAIN Upper : Upper[i] = c]]

LowerChar(c) == IF c \in DOMAIN LowerOf THEN LowerOf[c] ELSE c

\* str.lower()
StrLower(s) == [i \in DOMAIN s |-> LowerChar(s[i])]

RECURSIVE LStrip(_)
LStrip(s) ==
    IF s # <<>> /\ Head(s) \in Whitespace THEN LStrip(Tail(s)) ELSE s

RECURSIVE RStrip(_)
RStrip(s) ==
    IF s # <<>> /\ s[Len(s)] \in Whitespace
    THEN RStrip(SubSeq(s, 1, Len(s) - 1))
    ELSE s

\* str.strip(): leading and trailing whitespace removed
StrStrip(s) == RStrip(LStrip(s))

\* A faulty variant of StrReplaceSpace: str.replace(' ', '_', 1), the first space only.
StrReplaceFirstSpace(s) ==
    [i \in DOMAIN s |->
        IF s[i] = " " /\ (\A j \in 1..(i - 1) : s[j] # " ") THEN "_" ELSE s[i]]

\* str.replace(' ', '_'): every space character becomes an underscore
StrReplaceSpace(s) == [i \in DOMAIN s |-> IF s[i] = " " THEN "_" ELSE s[i]]

\* 'sub' in s
Contains(s, sub) ==
    \E i \in 0..(Len(s) - Len(sub)) : SubSeq(s, i + 1, i + Len(sub)) = sub

\* One column label through line 25: .str.lower().str.replace(' ', '_').str.strip()
CanonicalName(s) == StrStrip(StrReplaceSpace(StrLower(s)))

(***************************************************************************)
(* Cell values and number parsing.                                         *)
(***************************************************************************)
Str(s) == [k |-> "str", s |-> s, n |-> 0]
Num(n) == [k |-> "num", s |-> <<>>, n |-> n]
NaN == [k |-> "nan", s |-> <<>>, n |-> 0]

IsDigit(c) == \E i \in DOMAIN DigitChars : DigitChars[i] = c
DigitVal(c) == (CHOOSE i \in DOMAIN DigitChars : DigitChars[i] = c) - 1

RECURSIVE DigitsVal(_)
DigitsVal(s) ==
    IF s = <<>> THEN 0
    ELSE 10 * DigitsVal(SubSeq(s, 1, Len(s) - 1)) + DigitVal(s[Len(s)])

AllDigits(s) == s # <<>> /\ \A i \in DOMAIN s : IsDigit(s[i])

\* The number parser of pandas (read_csv and to_numeric alike): surrounding
\* whitespace is skipped; anything that is not a number gives NaN.
ParseNumber(s) ==
    LET t == StrStrip(s) IN
    IF t # <<>> /\ Head(t) = "-" /\ AllDigits(Tail(t)) THEN Num(0 - DigitsVal(Tail(t)))
    ELSE IF AllDigits(t) THEN Num(DigitsVal(t))
    ELSE NaN

(***************************************************************************)
(* The source file and the DataFrame.                                      *)
(***************************************************************************)
EmptyFrame == [columns |-> <<>>, dtypes |-> <<>>, data |-> <<>>]

\* read_csv's type inference: a column whose every cell is empty or a number
\* is numeric (empty cells NaN); any other column is object, its empty cells
\* NaN and the others their text as written.  A table without rows has
\* object columns only.
InfersNumber(rawtbl, j) ==
    /\ rawtbl.rows # <<>>
    /\ \A i \in DOMAIN rawtbl.rows :
          \/ rawtbl.rows[i][j] = <<>>
          \/ ParseNumber(rawtbl.rows[i][j]).k = "num"

ReadCell(s, numeric) ==
    IF s = <<>> THEN NaN ELSE IF numeric THEN ParseNumber(s) ELSE Str(s)

read_csv(rawtbl) ==
    [columns |-> rawtbl.header,
     dtypes  |-> [j \in DOMAIN rawtbl.header |->
                    IF InfersNumber(rawtbl, j) THEN "number" ELSE "object"],
     data    |-> [i \in DOMAIN rawtbl.rows |->
                    [idx   |-> i,
                     cells |-> [j \in DOMAIN rawtbl.header |->
                                  ReadCell(rawtbl.rows[i][j], InfersNumber(rawtbl, j))]]]]

\* A faulty variant of load_data: a missing file is read as an empty table.
load_data_no_check(exists, rawtbl) ==
    [err |-> "none", df |-> IF exists THEN read_csv(rawtbl) ELSE EmptyFrame]

load_data(exists, rawtbl) ==
    IF ~exists
    THEN [err |-> "FileNotFoundError", df |-> EmptyFrame]
    ELSE [err |-> "none", df |-> read_csv(rawtbl)]

clean_column_names(d) ==
    [d EXCEPT !.columns = [j \in DOMAIN @ |-> CanonicalName(@[j])]]

\* astype(str) of a cell of an object column: NaN becomes the text "nan"
AsText(v) == IF v.k = "nan" THEN <<"n", "a", "n">> ELSE v.s

CleanCell(v) == Str(StrStrip(AsText(v)))

clean_text_fields(d) ==
    [d EXCEPT !.data =
        [i \in DOMAIN @ |->
            [@[i] EXCEPT !.cells =
                [j \in DOMAIN @ |->
                    IF d.dtypes[j] = "object" THEN CleanCell(@[j]) ELSE @[j]]]]]

PriceWord == <<"p", "r", "i", "c", "e">>
QuantityWord == <<"q", "u", "a", "n", "t", "i", "t", "y">>
QtyWord == <<"q", "t", "y">>

IsPriceName(col) == Contains(StrLower(col), PriceWord)
IsQuantityName(col) ==
    Contains(StrLower(col), QuantityWord) \/ Contains(StrLower(col), QtyWord)

price_cols(d) == SelectSeq(d.columns, IsPriceName)
quantity_cols(d) == SelectSeq(d.columns, IsQuantityName)

\* The position of the column labelled col (labels are distinct)
ColIndex(d, col) == CHOOSE j \in DOMAIN d.columns : d.columns[j] = col

\* pd.to_numeric(series, errors='coerce') of one cell
ToNumericCell(v) == IF v.k = "str" THEN ParseNumber(v.s) ELSE v

\* df[col] = pd.to_numeric(df[col], errors='coerce')
ToNumericCol(d, col) ==
    LET c == ColIndex(d, col) IN
    [d EXCEPT !.dtypes[c] = "number",
              !.data = [i \in DOMAIN @ |->
                          [@[i] EXCEPT !.cells[c] = ToNumericCell(@)]]]

RECURSIVE ToNumericCols(_, _)
ToNumericCols(d, cols) ==
    IF cols = <<>> THEN d
    ELSE ToNumericCols(ToNumericCol(d, Head(cols)), Tail(cols))

\* A faulty variant of convert_to_numeric: the quantity columns are forgotten.
convert_to_numeric_price_only(d) == ToNumericCols(d, price_cols(d))

convert_to_numeric(d) == ToNumericCols(d, price_cols(d) \o quantity_cols(d))

\* df.select_dtypes(include=['number']).columns, as positions
NumberCols(d) == {j \in DOMAIN d.dtypes : d.dtypes[j] = "number"}

\* df.dropna(subset=cols): the rows without NaN in the columns, in order
DropNa(d, cols) ==
    LET Complete(r) == \A j \in cols : r.cells[j].k # "nan"
    IN [d EXCEPT !.data = SelectSeq(@, Complete)]

\* df.dropna(subset=cols, how='all'): a row goes only when all of them are NaN
DropNaAll(d, cols) ==
    LET Kept(r) == \E j \in cols : r.cells[j].k # "nan"
    IN [d EXCEPT !.data = SelectSeq(@, Kept)]

RECURSIVE Reverse(_)
Reverse(s) == IF s = <<>> THEN <<>> ELSE Append(Reverse(Tail(s)), Head(s))

\* A faulty variant of handle_missing_values: how='all'.
handle_missing_values_how_all(d) ==
    IF NumberCols(d) # {} THEN DropNaAll(d, NumberCols(d)) ELSE d

\* A faulty variant of handle_missing_values: the kept rows come out newest first.
handle_missing_values_reversed(d) ==
    IF NumberCols(d) # {}
    THEN [d EXCEPT !.data = Reverse(DropNa(d, NumberCols(d)).data)]
    ELSE d

\* A faulty variant of handle_missing_values: only price/quantity columns count.
handle_missing_values_named_only(d) ==
    DropNa(d, {j \in NumberCols(d) :
                  IsPriceName(d.columns[j]) \/ IsQuantityName(d.columns[j])})

handle_missing_values(d) ==
    IF NumberCols(d) # {} THEN DropNa(d, NumberCols(d)) ELSE d


\* df = df[df[col] >= 0] for one column: comparing a text with 0 raises
\* TypeError; NaN >= 0 is False; the kept rows stay in order, cells untouched.
FilterNonNegative(res, col) ==
    IF res.err # "none" THEN res
    ELSE LET c == ColIndex(res.df, col)
             NonNegative(r) == r.cells[c].k = "num" /\ r.cells[c].n >= 0
         IN IF \E i \in DOMAIN res.df.data : res.df.data[i].cells[c].k = "str"
            THEN [err |-> "TypeError", df |-> res.df]
            ELSE [err |-> "none",
                  df  |-> [res.df EXCEPT !.data = SelectSeq(@, NonNegative)]]

\* A faulty variant of RemoveInvalidOver: the loop ends at the first column that
\* removed a row.
RECURSIVE RemoveInvalidStopEarly(_, _)
RemoveInvalidStopEarly(res, cols) ==
    IF cols = <<>> THEN res
    ELSE LET r1 == FilterNonNegative(res, Head(cols)) IN
         IF r1.err = "none" /\ Len(r1.df.data) < Len(res.df.data)
         THEN r1
         ELSE RemoveInvalidStopEarly(r1, Tail(cols))

\* The loop of lines 111-117 over a given sequence of column labels
RECURSIVE RemoveInvalidOver(_, _)
RemoveInvalidOver(res, cols) ==
    IF cols = <<>> THEN res
    ELSE RemoveInvalidOver(FilterNonNegative(res, Head(cols)), Tail(cols))

cols_to_check(d) == price_cols(d) \o quantity_cols(d)

\* A faulty variant of remove_invalid_rows: the quantity columns are not checked.
remove_invalid_rows_price_only(d) ==
    RemoveInvalidOver([err |-> "none", df |-> d], price_cols(d))

remove_invalid_rows(d) ==
    RemoveInvalidOver([err |-> "none", df |-> d], cols_to_check(d))

(***************************************************************************)
(* The destination.                                                        *)
(***************************************************************************)
NoFile == [state |-> "absent", header |-> <<>>, rows |-> <<>>]
OldFile == [state |-> "old", header |-> <<>>, rows |-> <<>>]

\* df.to_csv(path, index=False): fails when the parent directory is absent;
\* otherwise the file holds the header and the rows in order, without index.
to_csv(d, dir, file) ==
    IF ~dir
    THEN [err |-> "OSError", dir |-> dir, file |-> file]
    ELSE [err |-> "none", dir |-> dir,
          file |-> [state  |-> "written",
                    header |-> d.columns,
                    rows   |-> [i \in DOMAIN d.data |-> d.data[i].cells]]]

\* os.makedirs(os.path.dirname(output_path), exist_ok=True), then to_csv
save_cleaned_data(d, dir, file) == to_csv(d, TRUE, file)

(***************************************************************************)
(* The source files drawn: three headers as read_csv sees them (the header *)
(* line "Item Name, Price" gives the second label its leading space), and  *)
(* up to MaxRows rows of cells.                                            *)
(***************************************************************************)
HdrItemName == <<"I", "t", "e", "m", " ", "N", "a", "m", "e">>
HdrSpacePrice == <<" ", "P", "r", "i", "c", "e">>
HdrPriceQty == <<"p", "r", "i", "c", "e", "_", "q", "t", "y">>
HdrRating == <<"R", "a", "t", "i", "n", "g">>
HdrQTY == <<"Q", "T", "Y">>
HdrUnitPrice == <<"U", "n", "i", "t", " ", "P", "r", "i", "c", "e">>

Headers ==
    { <<HdrItemName, HdrSpacePrice>>,
      <<HdrPriceQty, HdrRating>>,
      <<HdrQTY, HdrUnitPrice>> }

\* empty, malformed, negative, and a padded number on the boundary
CellTexts == { <<>>, <<"x">>, <<"-", "1">>, <<" ", "0", " ">> }

RawTables ==
    { [header |-> h, rows |-> r] :
        h \in Headers,
        r \in UNION { [1..n -> [1..2 -> CellTexts]] : n \in 0..MaxRows } }

NoTable == [header |-> <<>>, rows |-> <<>>]

(***************************************************************************)
(* The run of the __main__ block, one action per statement.                *)
(***************************************************************************)
Init ==
    /\ pc = "start"
    /\ srcExists \in BOOLEAN
    /\ raw \in (IF srcExists THEN RawTables ELSE {NoTable})
    /\ df = EmptyFrame
    /\ destDir \in BOOLEAN
    /\ destFile \in (IF destDir THEN {NoFile, OldFile} ELSE {NoFile})
    /\ fs0 = [dir |-> destDir, file |-> destFile]
    /\ err = "none"
    /\ hist = <<>>

\* line 146
Run_load_data ==
    /\ pc = "start"
    /\ LET r == load_data(srcExists, raw) IN
         IF r.err # "none"
         THEN pc' = "failed" /\ err' = r.err /\ UNCHANGED df
         ELSE pc' = "loaded" /\ df' = r.df /\ UNCHANGED err
    /\ UNCHANGED <<srcExists, raw, destDir, destFile, fs0, hist>>

\* line 147
Run_clean_column_names ==
    /\ pc = "loaded"
    /\ df' = clean_column_names(df)
    /\ pc' = "named"
    /\ UNCHANGED <<srcExists, raw, destDir, destFile, fs0, err, hist>>

\* line 148
Run_clean_text_fields ==
    /\ pc = "named"
    /\ df' = clean_text_fields(df)
    /\ pc' = "trimmed"
    /\ UNCHANGED <<srcExists, raw, destDir, destFile, fs0, err, hist>>

\* line 149
Run_convert_to_numeric ==
    /\ pc = "trimmed"
    /\ df' = convert_to_numeric(df)
    /\ pc' = "converted"
    /\ UNCHANGED <<srcExists, raw, destDir, destFile, fs0, err, hist>>

\* line 150
Run_handle_missing_values ==
    /\ pc = "converted"
    /\ df' = handle_missing_values(df)
    /\ pc' = "nomissing"
    /\ UNCHANGED <<srcExists, raw, destDir, destFile, fs0, err, hist>>

\* line 151
Run_remove_invalid_rows ==
    /\ pc = "nomissing"
    /\ LET r == remove_invalid_rows(df) IN
         IF r.err # "none"
         THEN pc' = "failed" /\ err' = r.err /\ UNCHANGED df
         ELSE pc' = "filtered" /\ df' = r.df /\ UNCHANGED err
    /\ UNCHANGED <<srcExists, raw, destDir, destFile, fs0, hist>>

\* line 152: the __main__ block calls to_csv itself, not save_cleaned_data
Run_to_csv ==
    /\ pc = "filtered"
    /\ LET r == to_csv(df, destDir, destFile) IN
         /\ destDir' = r.dir
         /\ destFile' = r.file
         /\ IF r.err # "none"
            THEN pc' = "failed" /\ err' = r.err
            ELSE pc' = "done" /\ UNCHANGED err
    /\ UNCHANGED <<srcExists, raw, df, fs0, hist>>

Next ==
    \/ Run_load_data
    \/ Run_clean_column_names
    \/ Run_clean_text_fields
    \/ Run_convert_to_numeric
    \/ Run_handle_missing_values
    \/ Run_remove_invalid_rows
    \/ Run_to_csv

Spec == Init /\ [][Next]_vars

(***************************************************************************)
(* The Column Normalizer on its own: a two-column table whose labels are   *)
(* any texts of at most MaxNameLen characters, normalized up to twice;     *)
(* hist keeps the labels as they were before each application.             *)
(***************************************************************************)
NameChars == {"A", "a", " ", "\t"}

Names == UNION { [1..n -> NameChars] : n \in 0..MaxNameLen }

NameInit ==
    /\ pc = "names"
    /\ srcExists = TRUE
    /\ \E a \in Names, b \in Names :
         /\ raw = [header |-> <<a, b>>, rows |-> <<>>]
         /\ df = [columns |-> <<a, b>>, dtypes |-> <<"object", "object">>, data |-> <<>>]
    /\ destDir = FALSE
    /\ destFile = NoFile
    /\ fs0 = [dir |-> destDir, file |-> destFile]
    /\ err = "none"
    /\ hist = <<>>

Apply_clean_column_names ==
    /\ pc = "names"
    /\ Len(hist) < 2
    /\ hist' = Append(hist, df.columns)
    /\ df' = clean_column_names(df)
    /\ UNCHANGED <<pc, srcExists, raw, destDir, destFile, fs0, err>>

NameNext == Apply_clean_column_names

NameSpec == NameInit /\ [][NameNext]_vars

(***************************************************************************)
(* Properties.                                                             *)
(***************************************************************************)
IsCheckedName(col) == IsPriceName(col) \/ IsQuantityName(col)

\* The positions of the price/quantity-named labels of a header
CheckedCols(header) == {j \in DOMAIN header : IsCheckedName(header[j])}

AfterFilter == pc \in {"filtered", "done"}

\* A cell of the source file, as the number it parses to (or NaN)
RawValue(i, j) == ParseNumber(StrStrip(raw.rows[i][j]))

SurvivorIds == {df.data[i].idx : i \in DOMAIN df.data}

\* C1: once remove_invalid_rows has run, every remaining row holds a number
\* >= 0 in every column whose name contains price, quantity or qty; the
\* same is true of the rows written to the destination.
C1_NonNegativeAfterFilter ==
    /\ AfterFilter =>
         \A j \in CheckedCols(df.columns), i \in DOMAIN df.data :
            df.data[i].cells[j].k = "num" /\ df.data[i].cells[j].n >= 0
    /\ destFile.state = "written" =>
         \A j \in CheckedCols(destFile.header), i \in DOMAIN destFile.rows :
            destFile.rows[i][j].k = "num" /\ destFile.rows[i][j].n >= 0

\* The filter has run on a table that held a negative price/quantity, and
\* some row survived it.
C1_Witness ==
    /\ pc = "filtered"
    /\ df.data # <<>>
    /\ \E i \in DOMAIN raw.rows, j \in DOMAIN raw.header :
          /\ IsCheckedName(raw.header[j])
          /\ RawValue(i, j).k = "num" /\ RawValue(i, j).n < 0
          /\ \A j2 \in DOMAIN raw.header :
                /\ raw.rows[i][j2] # <<>>
                /\ IsCheckedName(raw.header[j2]) => RawValue(i, j2).k = "num"

\* C2: once handle_missing_values has run, no remaining row holds NaN in
\* any column of number dtype, price/quantity-named or not; the same is
\* true of the rows written to the destination.
C2_NoMissingNumber ==
    /\ pc \in {"nomissing", "filtered", "done"} =>
         \A i \in DOMAIN df.data, j \in NumberCols(df) :
            df.data[i].cells[j].k # "nan"
    /\ destFile.state = "written" =>
         \A i \in DOMAIN destFile.rows, j \in NumberCols(df) :
            destFile.rows[i][j].k # "nan"

\* The drop has run on a table with an empty cell in a number column that
\* is not price/quantity-named; a row was dropped and a row was kept.
C2_Witness ==
    /\ pc = "nomissing"
    /\ df.data # <<>>
    /\ Len(df.data) < Len(raw.rows)
    /\ \E j \in NumberCols(df) :
          /\ ~IsCheckedName(df.columns[j])
          /\ \E i \in DOMAIN raw.rows : raw.rows[i][j] = <<>>

\* C3: a run whose source exists and whose destination directory is absent
\* creates the directory and writes the output.
C3_WriterCreatesParentDirs ==
    (srcExists /\ ~fs0.dir /\ pc \in {"done", "failed"}) =>
        (pc = "done" /\ destDir /\ destFile.state = "written")

\* The labels after one application of clean_column_names
OnceNormalized == IF Len(hist) = 1 THEN df.columns ELSE hist[2]

\* C4: clean_column_names gives a label the same canonical name as its
\* trimmed form (leading and trailing spaces leave no underscore).
C4_TrimmedFormSameName ==
    Len(hist) >= 1 =>
        \A j \in DOMAIN hist[1] :
            OnceNormalized[j] = CanonicalName(StrStrip(hist[1][j]))

\* C5: a second application of clean_column_names leaves every label, and
\* their order, as the first application made them.
C5_NormalizeIdempotent ==
    Len(hist) = 2 => df.columns = hist[2]

\* Two applications have run, and the first one changed both labels.
C5_Witness ==
    /\ Len(hist) = 2
    /\ hist[1][1] # hist[2][1]
    /\ hist[1][2] # hist[2][2]
    /\ \E i \in DOMAIN hist[1][1] : hist[1][1][i] = " "


\* The cells of the source file in price/quantity-named columns
CheckedRawCells ==
    {raw.rows[i][j] : i \in DOMAIN raw.rows, j \in CheckedCols(raw.header)}

\* C6: whatever the cells of a price/quantity-named column hold, coercion
\* leaves a number or NaN in each of them, and the run never ends on an
\* error raised over a cell: it ends only on the missing source or on the
\* destination write.
C6_CoercionNeverRaises ==
    /\ err \in {"none", "FileNotFoundError", "OSError"}
    /\ pc = "failed" => err # "none"
    /\ (pc = "failed" /\ err = "FileNotFoundError") => ~srcExists
    /\ pc \in {"converted", "nomissing", "filtered", "done"} =>
         \A j \in CheckedCols(df.columns), i \in DOMAIN df.data :
            df.data[i].cells[j].k \in {"num", "nan"}

\* A run reached the write with a malformed, an empty, a negative and a
\* well-formed cell in the price/quantity-named columns of its source.
C6_Witness ==
    /\ pc \in {"done", "failed"}
    /\ srcExists
    /\ <<>> \in CheckedRawCells
    /\ \E t \in CheckedRawCells : t # <<>> /\ ParseNumber(t).k = "nan"
    /\ \E t \in CheckedRawCells : ParseNumber(t).k = "num" /\ ParseNumber(t).n < 0
    /\ \E t \in CheckedRawCells : ParseNumber(t).k = "num" /\ ParseNumber(t).n >= 0

\* C7: at every stage the rows of the table are in the order of the source
\* file, none twice, and the destination holds them in that order.
C7_RowOrderPreserved ==
    /\ \A i, k \in DOMAIN df.data : i < k => df.data[i].idx < df.data[k].idx
    /\ \A i \in DOMAIN df.data : df.data[i].idx \in DOMAIN raw.rows
    /\ destFile.state = "written" =>
         destFile.rows = [i \in DOMAIN df.data |-> df.data[i].cells]

\* Two rows survived to the output.
C7_Witness ==
    /\ pc = "done"
    /\ Len(df.data) >= 2
    /\ Len(destFile.rows) >= 2

\* C8: the destination is written only by a run that completed every
\* stage; a run that did not complete leaves the destination as it was;
\* with the source missing the run fails at load_data with
\* FileNotFoundError and no later stage runs.
C8_NoPartialSuccess ==
    /\ destFile.state = "written" <=> pc = "done"
    /\ pc # "done" => (destDir = fs0.dir /\ destFile = fs0.file)
    /\ ~srcExists =>
         /\ pc \in {"start", "failed"}
         /\ pc = "failed" => err = "FileNotFoundError"
         /\ df = EmptyFrame

\* The source is missing, the run has failed, and the file that was at the
\* destination is still there.
C8_Witness ==
    /\ ~srcExists
    /\ pc = "failed"
    /\ fs0.file = OldFile
    /\ destFile = OldFile

\* The sequences that list the elements of s in every order
PermutationsOf(s) ==
    {[i \in DOMAIN s |-> s[f[i]]] : f \in Permutations(DOMAIN s)}

FilterInput == [err |-> "none", df |-> df]

\* C9: on the table remove_invalid_rows receives, checking the columns in
\* any order gives the same rows in the same order, and every row kept is
\* a row of the input, cells unchanged.
C9_FilterOrderIndependent ==
    pc = "nomissing" =>
        \A cols \in PermutationsOf(cols_to_check(df)) :
            /\ RemoveInvalidOver(FilterInput, cols) = remove_invalid_rows(df)
            /\ \A i \in DOMAIN RemoveInvalidOver(FilterInput, cols).df.data :
                  \E k \in DOMAIN df.data :
                     RemoveInvalidOver(FilterInput, cols).df.data[i] = df.data[k]

\* The filter is about to run over two different columns, each of which
\* removes a row the other keeps.
C9_Witness ==
    /\ pc = "nomissing"
    /\ Len(cols_to_check(df)) = 2
    /\ cols_to_check(df)[1] # cols_to_check(df)[2]
    /\ FilterNonNegative(FilterInput, cols_to_check(df)[1]).df.data
          # FilterNonNegative(FilterInput, cols_to_check(df)[2]).df.data
    /\ Len(FilterNonNegative(FilterInput, cols_to_check(df)[1]).df.data) = 1
    /\ Len(FilterNonNegative(FilterInput, cols_to_check(df)[2]).df.data) = 1

\* The other columns of the source that are read as numbers
OtherNumberCols ==
    {j \in DOMAIN raw.header \ CheckedCols(raw.header) : InfersNumber(raw, j)}

\* The source rows the pipeline is meant to keep
MeantToKeep ==
    LET checked == CheckedCols(raw.header)
        others == OtherNumberCols
    IN {i \in DOMAIN raw.rows :
          /\ \A j \in checked : RawValue(i, j).k = "num" /\ RawValue(i, j).n >= 0
          /\ \A j \in others : raw.rows[i][j] # <<>>}

\* C10: a source row is in the final table exactly when every
\* price/quantity-named cell of it parses to a number >= 0 and no other
\* number column of it is empty; the columns are those of the source,
\* normalized, in order.
C10_ExactlyMeantRowsRemoved ==
    AfterFilter =>
        /\ SurvivorIds = MeantToKeep
        /\ df.columns = [j \in DOMAIN raw.header |-> CanonicalName(raw.header[j])]
        /\ pc = "done" => destFile.header = df.columns

\* A finished run kept a row whose text column was empty in the source and
\* removed another row.
C10_Witness ==
    /\ pc = "done"
    /\ Len(df.data) < Len(raw.rows)
    /\ \E i \in SurvivorIds, j \in DOMAIN raw.header :
          /\ ~IsCheckedName(raw.header[j])
          /\ ~InfersNumber(raw, j)
          /\ raw.rows[i][j] = <<>>

====
